---------------------------- MODULE Spec2Model ----------------------------
(***************************************************************************)
(* A model of transpyimo.py: the docstring driver translate_docstring, the *)
(* TranslationBuffer it drives, and the line classifier functions.         *)
(*                                                                         *)
(* A string is a sequence of one-character strings, so that strip, find,   *)
(* slicing and startswith are computed as Python computes them.  The only  *)
(* whitespace character of the model's alphabet is the space.              *)
(***************************************************************************)
EXTENDS Integers, Sequences, FiniteSets, TLC

(***************************************************************************)
(* Bounds of the model.                                                    *)
(***************************************************************************)
MaxLines == 3
NarrowWidth == 3
WideWidth == 5
AmpleWidth == 8
MaxText == 4

\* the number of calls made on one TranslationBuffer
MaxCalls == 3

(***************************************************************************)
(* Python string primitives.                                               *)
(***************************************************************************)
IsSpace(c) == c = " "

Take(s, n) == SubSeq(s, 1, n)

Drop(s, n) == SubSeq(s, n + 1, Len(s))

RECURSIVE LStrip(_)
LStrip(s) == IF s # <<>> /\ IsSpace(Head(s)) THEN LStrip(Tail(s)) ELSE s

RECURSIVE RStrip(_)
RStrip(s) ==
    IF s # <<>> /\ IsSpace(s[Len(s)]) THEN RStrip(Take(s, Len(s) - 1)) ELSE s

\* str.strip()
Strip(s) == RStrip(LStrip(s))

\* str.startswith(p)
StartsWith(s, p) == Len(p) <= Len(s) /\ Take(s, Len(p)) = p

\* str.find(sub): the lowest 0-based index where sub occurs, -1 when it does not
Find(s, sub) ==
    LET hits == {i \in 0..(Len(s) - Len(sub)) : SubSeq(s, i + 1, i + Len(sub)) = sub}
    IN  IF hits = {} THEN -1 ELSE CHOOSE i \in hits : \A j \in hits : i <= j

\* s[:k] for any integer k (a negative k counts from the end)
SliceTo(s, k) ==
    IF k >= 0 THEN Take(s, IF k <= Len(s) THEN k ELSE Len(s))
    ELSE Take(s, IF Len(s) + k >= 0 THEN Len(s) + k ELSE 0)

\* ' ' * n
Spaces(n) == [i \in 1..(IF n > 0 THEN n ELSE 0) |-> " "]

\* ''.join(lines): the fragments run together
RECURSIVE Join_no_separator(_)
Join_no_separator(ls) ==
    IF ls = <<>> THEN <<>> ELSE Head(ls) \o Join_no_separator(Tail(ls))

\* ' '.join(lines)
RECURSIVE Join(_)
Join(ls) ==
    IF ls = <<>> THEN <<>>
    ELSE IF Len(ls) = 1 THEN ls[1]
    ELSE ls[1] \o <<" ">> \o Join(Tail(ls))

Max(a, b) == IF a >= b THEN a ELSE b

(***************************************************************************)
(* Module constants.                                                       *)
(***************************************************************************)
\* the grave accent and the apostrophe: a string literal cannot hold a grave
\* accent without an apostrophe after it, so the two are cut from one literal
GraveApostrophe == "`'"

Grave == SubSeq(GraveApostrophe, 1, 1)

Apostrophe == SubSeq(GraveApostrophe, 2, 2)

\* line 15: the thirteen characters of SECTION_DECORATOR
SECTION_DECORATOR ==
    {"=", "-", Grave, ":", ".", Apostrophe, "\"", "~", "^", "_", "*", "+", "#"}

LIST_DECORATORS == << <<"-">>, <<"*">>, <<"#", ".">>, <<"|">> >>

Digits == {"0", "1", "2", "3", "4", "5", "6", "7", "8", "9"}

\* ORDERED_LIST_PATTERN.match(text): the matched prefix, <<>> when no match
RECURSIVE DigitRun(_)
DigitRun(s) == IF s # <<>> /\ Head(s) \in Digits THEN 1 + DigitRun(Tail(s)) ELSE 0

ORDERED_LIST_PATTERN(text) ==
    LET n == DigitRun(text)
    IN  IF n >= 1 /\ Len(text) > n /\ text[n + 1] = "." THEN Take(text, n + 1) ELSE <<>>

(***************************************************************************)
(* The line classifier.                                                    *)
(***************************************************************************)
\* _split_indent with the empty indent for a blank line
_split_indent_blank_empty(line) ==
    LET text == Strip(line)
    IN  IF text = <<>> THEN [indent |-> <<>>, text |-> <<>>]
        ELSE [indent |-> SliceTo(line, Find(line, text)), text |-> text]

\* _split_indent(line) = (indent, text)
_split_indent(line) ==
    LET text == Strip(line)
    IN  IF text = <<>> THEN [indent |-> line, text |-> <<>>]
        ELSE [indent |-> SliceTo(line, Find(line, text)), text |-> text]

\* _is_section_decoration(text); text[0] of an empty text raises IndexError
_is_section_decoration(text) ==
    /\ text[1] \in SECTION_DECORATOR
    /\ \A i \in 2..Len(text) : text[i] = text[1]

\* _split_header(text, header) = (header, body)
_split_header(text, header) ==
    LET body == Strip(Drop(text, Len(header)))
    IN  [header |-> SliceTo(text, Find(text, body)), body |-> body]

\* _try_split_list_header(text) = (is_list, header, body)
_try_split_list_header(text) ==
    LET bullets == {i \in 1..Len(LIST_DECORATORS) :
                        StartsWith(text, LIST_DECORATORS[i] \o <<" ">>)}
        first == CHOOSE i \in bullets : \A j \in bullets : i <= j
        m == ORDERED_LIST_PATTERN(text)
    IN  IF bullets # {}
        THEN LET r == _split_header(text, LIST_DECORATORS[first])
             IN  [is_list |-> TRUE, header |-> r.header, body |-> r.body]
        ELSE IF m # <<>>
        THEN LET r == _split_header(text, m)
             IN  [is_list |-> TRUE, header |-> r.header, body |-> r.body]
        ELSE [is_list |-> FALSE, header |-> <<>>, body |-> text]

(***************************************************************************)
(* The message catalog: a finite map from joined source text to translated *)
(* text.  gettext returns the message itself when the catalog has no entry.*)
(***************************************************************************)
gettext(catalog, message) ==
    IF message \in DOMAIN catalog THEN catalog[message] ELSE message

(***************************************************************************)
(* The wrap primitive (sphinx.writers.text.my_wrap), a word-wrap supplied   *)
(* from outside the program.  What it does on a text without words, on a   *)
(* width <= 0 and on a word longer than the width is not the program's to  *)
(* decide, so the program is modelled with either of two primitives:       *)
(*   "documented": the text is cut into chunks, words and runs of          *)
(*     whitespace; lines are filled greedily with whole chunks and broken  *)
(*     only at whitespace; a word longer than the width stands alone on    *)
(*     its line, so with a width <= 0 every word does; there is always at  *)
(*     least one line, a text with no word giving the one empty line;      *)
(*   "textwrap": textwrap.TextWrapper(width).wrap(text), which my_wrap     *)
(*     wraps: the same chunks and greedy fill, but a width <= 0 raises     *)
(*     ValueError, a text with no word gives no line, and a word longer    *)
(*     than the width is cut to fill the line.                             *)
(* In both, whitespace at a line's end, and at the start of every line but *)
(* the first, is dropped.  The texts of the model have no hyphen inside a  *)
(* word, so that TextWrapper's hyphen rule does not come into play.        *)
(***************************************************************************)
VARIABLE wrapper      \* the primitive the program runs with

Wrappers == {"documented", "textwrap"}

RECURSIVE RunLen(_, _)
RunLen(s, space) ==
    IF s # <<>> /\ IsSpace(Head(s)) = space THEN 1 + RunLen(Tail(s), space) ELSE 0

RECURSIVE Chunks(_)
Chunks(s) ==
    IF s = <<>> THEN <<>>
    ELSE LET n == RunLen(s, IsSpace(Head(s)))
         IN  <<Take(s, n)>> \o Chunks(Drop(s, n))

IsBlankChunk(c) == Strip(c) = <<>>

RECURSIVE Concat(_)
Concat(cs) == IF cs = <<>> THEN <<>> ELSE Head(cs) \o Concat(Tail(cs))

\* the number of leading chunks that fit into width, starting at length cur
RECURSIVE Fit(_, _, _)
Fit(cs, cur, width) ==
    IF cs # <<>> /\ cur + Len(Head(cs)) <= width
    THEN 1 + Fit(Tail(cs), cur + Len(Head(cs)), width)
    ELSE 0

RECURSIVE WrapChunks(_, _, _)
WrapChunks(chunks, width, lines) ==
    IF chunks = <<>> THEN lines
    ELSE LET cs == IF IsBlankChunk(Head(chunks)) /\ lines # <<>>
                   THEN Tail(chunks) ELSE chunks
             n == Fit(cs, 0, width)
             long == n = 0 /\ cs # <<>>
             k == IF long THEN 1 ELSE n
             cur == Take(cs, k)
             kept == IF cur # <<>> /\ IsBlankChunk(cur[Len(cur)])
                     THEN Take(cur, Len(cur) - 1) ELSE cur
         IN  WrapChunks(Drop(cs, k), width,
                        IF kept # <<>> THEN Append(lines, Concat(kept)) ELSE lines)

\* TextWrapper._wrap_chunks and _handle_long_word for a width >= 1
RECURSIVE TextWrapChunks(_, _, _)
TextWrapChunks(chunks, width, lines) ==
    IF chunks = <<>> THEN lines
    ELSE LET cs == IF IsBlankChunk(Head(chunks)) /\ lines # <<>>
                   THEN Tail(chunks) ELSE chunks
             n == Fit(cs, 0, width)
             fitted == Take(cs, n)
             rest == Drop(cs, n)
             long == rest # <<>> /\ Len(Head(rest)) > width
             space_left == width - Len(Concat(fitted))
             cur == IF long THEN Append(fitted, Take(Head(rest), space_left))
                    ELSE fitted
             left == IF long THEN <<Drop(Head(rest), space_left)>> \o Tail(rest)
                     ELSE rest
             kept == IF cur # <<>> /\ IsBlankChunk(cur[Len(cur)])
                     THEN Take(cur, Len(cur) - 1) ELSE cur
         IN  TextWrapChunks(left, width,
                            IF kept # <<>> THEN Append(lines, Concat(kept)) ELSE lines)

\* the primitive as documented: at least one line, overflow tolerated
documented_wrap(text, width) ==
    LET filled == WrapChunks(Chunks(text), width, <<>>)
    IN  [err |-> "", lines |-> IF filled = <<>> THEN << <<>> >> ELSE filled]

\* the primitive as textwrap.TextWrapper(width).wrap(text)
textwrap_wrap(text, width) ==
    IF width <= 0 THEN [err |-> "ValueError", lines |-> <<>>]
    ELSE [err |-> "", lines |-> TextWrapChunks(Chunks(text), width, <<>>)]

\* sphinx_wrap(text, width): the lines, or the exception raised
sphinx_wrap(text, width) ==
    IF wrapper = "documented" THEN documented_wrap(text, width)
    ELSE textwrap_wrap(text, width)

(***************************************************************************)
(* TranslationBuffer.  A buffer value holds the four mutable fields; the   *)
(* fields translation, line_width and base_indent are fixed at             *)
(* construction and are passed to the flush.                               *)
(***************************************************************************)
\* __init__ and _reset
_reset == [start_at |-> -1, indent |-> <<>>, lines |-> <<>>, original_lines |-> <<>>]

\* put that keeps only the line it is given
put_overwrite(buf, no, indent, text, original) ==
    [start_at |-> IF buf.lines = <<>> THEN no ELSE buf.start_at,
     indent |-> IF buf.lines = <<>> THEN indent ELSE buf.indent,
     lines |-> <<text>>,
     original_lines |-> <<original>>]

\* put(line_no, indent, text, original)
put(buf, no, indent, text, original) ==
    [start_at |-> IF buf.lines = <<>> THEN no ELSE buf.start_at,
     indent |-> IF buf.lines = <<>> THEN indent ELSE buf.indent,
     lines |-> Append(buf.lines, text),
     original_lines |-> Append(buf.original_lines, original)]

\* flush_original without the reset of line 38
flush_original_keep(buf) ==
    [err |-> "", out |-> buf.original_lines, buffer |-> buf,
     wrapped |-> <<>>, avail |-> 0]

\* flush_original(): the lines returned and the buffer afterwards
flush_original(buf) ==
    [err |-> "", out |-> buf.original_lines, buffer |-> _reset,
     wrapped |-> <<>>, avail |-> 0]

\* the width of the opening delimiter, len('"""')
DelimiterWidth == 3

\* first_size with min for max: the lesser of the two indents is charged
first_size_min(buf, base_indent) ==
    LET a == Len(buf.indent)
        b == Len(base_indent) + (IF buf.start_at = 0 THEN DelimiterWidth ELSE 0)
    IN  IF a <= b THEN a ELSE b

\* the size the first wrapped line is charged with
first_size(buf, base_indent) ==
    IF buf.start_at = 0
    THEN Max(Len(buf.indent), Len(base_indent) + DelimiterWidth)
    ELSE Max(Len(buf.indent), Len(base_indent))

\* line 47 with the wrap primitive applied all the same
unwrapped_lines_wrapped(indent, translated) ==
    LET w == sphinx_wrap(translated, WideWidth).lines
    IN  [i \in 1..Len(w) |-> indent \o w[i]]

\* line 47: the one line emitted when line-width limiting is disabled
unwrapped_lines(indent, translated) == <<indent \o translated>>

\* the prefix of a continuation line is the unit's indent string itself
continuation_indent_copy(buf, base_indent) == buf.indent

\* lines 49 and 61: the prefix of every wrapped line after the first
continuation_indent(buf, base_indent) ==
    Spaces(Max(Len(buf.indent), Len(base_indent)))

\* flush_translated(): the lines returned (or the exception raised) and the
\* buffer afterwards; wrapped and avail record the call of the wrap primitive.
\* An exception of the primitive (line 57), and the IndexError of line 59 when
\* the primitive returned no line, leave the buffer as it was: the reset of
\* line 62 is not reached.
flush_translated(buf, translation, line_width, base_indent) ==
    IF buf.lines = <<>>
    THEN [err |-> "", out |-> <<>>, buffer |-> buf, wrapped |-> <<>>, avail |-> 0]
    ELSE
    LET original_text == Join(buf.lines)
        translated == gettext(translation, original_text)
        avail == line_width - first_size(buf, base_indent)
        w == sphinx_wrap(translated, avail)
    IN  IF line_width <= 0
        THEN [err |-> "", out |-> unwrapped_lines(buf.indent, translated), buffer |-> _reset,
              wrapped |-> <<>>, avail |-> 0]
        ELSE IF w.err # ""
        THEN [err |-> w.err, out |-> <<>>, buffer |-> buf,
              wrapped |-> <<>>, avail |-> avail]
        ELSE IF w.lines = <<>>
        THEN [err |-> "IndexError", out |-> <<>>, buffer |-> buf,
              wrapped |-> <<>>, avail |-> avail]
        ELSE [err |-> "",
              out |-> [i \in 1..Len(w.lines) |->
                          IF i = 1 THEN buf.indent \o w.lines[1]
                          ELSE continuation_indent(buf, base_indent) \o w.lines[i]],
              buffer |-> _reset, wrapped |-> w.lines, avail |-> avail]

(***************************************************************************)
(* Inputs: docstrings of at most MaxLines lines over a set of lines that   *)
(* holds every structural role, the configured widths, and the catalogs.   *)
(***************************************************************************)
InputLines ==
    { <<>>,                          \* an empty line
      <<" ", " ">>,                  \* a line of whitespace
      <<"a">>,                       \* prose
      <<" ", " ", "a">>,             \* indented prose
      <<" ", " ", "a", " ", "b", "b">>,   \* indented prose of two words
      <<"=", "=">>,                  \* a section decoration
      <<"=">>,                       \* a section decoration of one character
      <<"-", " ", "a">>,             \* a bullet item
      <<"-", " ", "-">>,             \* a bullet item whose body repeats the marker
      <<"1", ".">> }                 \* an ordered marker with no body

RECURSIVE SeqsUpTo(_, _)
SeqsUpTo(S, n) ==
    IF n = 0 THEN {<<>>}
    ELSE LET shorter == SeqsUpTo(S, n - 1)
         IN  shorter \cup {Append(d, l) : d \in {x \in shorter : Len(x) = n - 1}, l \in S}

Docstrings == SeqsUpTo(InputLines, MaxLines)

LineWidths == {0, NarrowWidth, WideWidth}

\* no entry: every lookup returns its argument
NullCatalog == << >>

\* a catalog with entries for a word, a merged paragraph and a list body
SomeCatalog ==
    (<<"a">> :> <<"b", "b", " ", "b">>) @@
    (<<"a", " ", "a">> :> <<"c", "c", " ", "c", "c", " ", "c", "c">>) @@
    (<<"a", " ", "b", "b">> :> <<"b", "b", "b", "b", " ", "a", " ", "a">>)

Catalogs == {NullCatalog, SomeCatalog}

(***************************************************************************)
(* translate_docstring as a state machine: one step per loop iteration.    *)
(***************************************************************************)
VARIABLES
    original_lines,   \* original.splitlines()
    translation,      \* the catalog
    line_width,
    base_indent,
    buffer,           \* the TranslationBuffer's fields
    translated,       \* the output lines so far
    line_no,          \* the index of the line the loop reads next
    pc,               \* "start", "loop", "done" or "error"
    err,              \* the exception raised, "" when none
    result,           \* the string returned, lines joined by "\n"
    unit_nos,         \* history: the indices of the lines put into the buffer
    events,           \* history: every flush and every line emitted verbatim
    first_pass,       \* history: the results of the earlier passes over a text
    probe,            \* the argument of a function that is applied on its own
    answer            \* history: the last direct call and what it returned

vars == <<original_lines, translation, line_width, base_indent, buffer, translated,
          line_no, pc, err, result, unit_nos, events, first_pass, probe, answer,
          wrapper>>

\* what the loop of translate_docstring never assigns
inputs == <<original_lines, translation, line_width, first_pass, probe, answer,
            wrapper>>

\* '\n'.join(lines)
RECURSIVE JoinNL(_)
JoinNL(ls) ==
    IF ls = <<>> THEN <<>>
    ELSE IF Len(ls) = 1 THEN ls[1]
    ELSE ls[1] \o <<"\n">> \o JoinNL(Tail(ls))

InitWith(widths) ==
    /\ original_lines \in Docstrings
    /\ translation \in Catalogs
    /\ line_width \in widths
    /\ wrapper \in Wrappers
    /\ base_indent = <<>>
    /\ buffer = _reset
    /\ translated = <<>>
    /\ line_no = 0
    /\ pc = "start"
    /\ err = ""
    /\ result = <<>>
    /\ unit_nos = <<>>
    /\ events = <<>>
    /\ first_pass = <<>>
    /\ probe = <<>>
    /\ answer = <<>>

Init == InitWith(LineWidths)

\* the Base Indent read from the second line, original_lines[1], which a
\* docstring of one line does not have
Start_second_line ==
    /\ pc = "start"
    /\ IF Len(original_lines) < 2
       THEN /\ pc' = "error"
            /\ err' = "IndexError"
            /\ UNCHANGED base_indent
       ELSE /\ pc' = "loop"
            /\ err' = ""
            /\ base_indent' = _split_indent(original_lines[2]).indent
    /\ UNCHANGED <<inputs, buffer, translated, line_no, result, unit_nos, events>>

\* lines 111-114: original_lines[-1] raises IndexError on an empty list
Start ==
    /\ pc = "start"
    /\ IF original_lines = <<>>
       THEN /\ pc' = "error"
            /\ err' = "IndexError"
            /\ UNCHANGED base_indent
       ELSE /\ pc' = "loop"
            /\ err' = ""
            /\ base_indent' = _split_indent(original_lines[Len(original_lines)]).indent
    /\ UNCHANGED <<inputs, buffer, translated, line_no, result, unit_nos, events>>

InLoop == pc = "loop" /\ line_no < Len(original_lines)

line == original_lines[line_no + 1]

FlushEvent(variant, r) ==
    [ev |-> "flush", variant |-> variant, at |-> line_no,
     start_at |-> buffer.start_at, indent |-> buffer.indent,
     lines |-> buffer.lines, originals |-> buffer.original_lines,
     nos |-> unit_nos, out |-> r.out, wrapped |-> r.wrapped, avail |-> r.avail]

LineEvent(kind) ==
    [ev |-> "line", variant |-> kind, at |-> line_no,
     start_at |-> -1, indent |-> <<>>, lines |-> <<>>, originals |-> <<>>,
     nos |-> <<>>, out |-> <<line>>, wrapped |-> <<>>, avail |-> 0]

Raise(e) ==
    /\ pc' = "error"
    /\ err' = e
    /\ UNCHANGED <<inputs, base_indent, buffer, translated, line_no, result,
                   unit_nos, events>>

\* a flush followed by a line emitted verbatim
FlushAndEmit(variant, r, kind) ==
    IF r.err # "" THEN Raise(r.err)
    ELSE /\ translated' = translated \o r.out \o <<line>>
         /\ buffer' = r.buffer
         /\ unit_nos' = <<>>
         /\ events' = events \o <<FlushEvent(variant, r), LineEvent(kind)>>
         /\ line_no' = line_no + 1
         /\ UNCHANGED <<inputs, base_indent, pc, err, result>>

\* a translated flush followed by the put that starts a new unit
FlushAndPut(r, indent, text) ==
    IF r.err # "" THEN Raise(r.err)
    ELSE /\ translated' = translated \o r.out
         /\ buffer' = put(r.buffer, line_no, indent, text, line)
         /\ unit_nos' = <<line_no>>
         /\ events' = Append(events, FlushEvent("translated", r))
         /\ line_no' = line_no + 1
         /\ UNCHANGED <<inputs, base_indent, pc, err, result>>

IsBlank(l) == Strip(l) = <<>>

IsSection(l) == ~IsBlank(l) /\ _is_section_decoration(_split_indent(l).text)

\* the list check made after the indentation comparison: an item at the
\* indent of the active unit is not seen as one
IsList_after_indent(l) ==
    /\ ~IsBlank(l) /\ ~IsSection(l)
    /\ _try_split_list_header(_split_indent(l).text).is_list
    /\ ~(buffer.lines # <<>> /\ Len(_split_indent(l).indent) = Len(buffer.indent))

IsList(l) ==
    ~IsBlank(l) /\ ~IsSection(l) /\ _try_split_list_header(_split_indent(l).text).is_list

\* a line that is neither blank, nor a section decoration, nor a list item
IsPlain(l) == ~IsBlank(l) /\ ~IsSection(l) /\ ~IsList(l)

\* line 139
IsIndent(l, no, buf, base) ==
    Len(_split_indent(l).indent) > (IF no = 1 THEN Len(base) ELSE Len(buf.indent))

\* line 145
IsUnindent(l, buf) == Len(_split_indent(l).indent) < Len(buf.indent)

\* lines 119-123
BlankLine ==
    /\ InLoop
    /\ IsBlank(line)
    /\ FlushAndEmit("translated",
                    flush_translated(buffer, translation, line_width, base_indent),
                    "blank")

\* the section case with the translated flush in place of flush_original
Section_translated ==
    /\ InLoop
    /\ IsSection(line)
    /\ FlushAndEmit("original",
                    flush_translated(buffer, translation, line_width, base_indent),
                    "deco")

\* lines 125-129
Section ==
    /\ InLoop
    /\ IsSection(line)
    /\ FlushAndEmit("original", flush_original(buffer), "deco")

\* lines 131-136
ListItem ==
    /\ InLoop
    /\ IsList(line)
    /\ LET s == _split_indent(line)
           h == _try_split_list_header(s.text)
       IN  FlushAndPut(flush_translated(buffer, translation, line_width, base_indent),
                       s.indent \o h.header, h.body)

\* lines 138-142
Indent ==
    /\ InLoop
    /\ ~IsBlank(line) /\ ~IsSection(line) /\ ~IsList(line)
    /\ IsIndent(line, line_no, buffer, base_indent)
    /\ LET s == _split_indent(line)
       IN  FlushAndPut(flush_translated(buffer, translation, line_width, base_indent),
                       s.indent, s.text)

\* lines 144-148
Unindent ==
    /\ InLoop
    /\ ~IsBlank(line) /\ ~IsSection(line) /\ ~IsList(line)
    /\ ~IsIndent(line, line_no, buffer, base_indent)
    /\ IsUnindent(line, buffer)
    /\ LET s == _split_indent(line)
       IN  FlushAndPut(flush_translated(buffer, translation, line_width, base_indent),
                       s.indent, s.text)

\* lines 150-151
Paragraph ==
    /\ InLoop
    /\ ~IsBlank(line) /\ ~IsSection(line) /\ ~IsList(line)
    /\ ~IsIndent(line, line_no, buffer, base_indent)
    /\ ~IsUnindent(line, buffer)
    /\ LET s == _split_indent(line)
       IN  buffer' = put(buffer, line_no, s.indent, s.text, line)
    /\ unit_nos' = Append(unit_nos, line_no)
    /\ line_no' = line_no + 1
    /\ UNCHANGED <<inputs, base_indent, translated, pc, err, result, events>>

\* lines 153-155
Finish ==
    /\ pc = "loop"
    /\ line_no = Len(original_lines)
    /\ LET r == flush_translated(buffer, translation, line_width, base_indent)
       IN  IF r.err # "" THEN Raise(r.err)
           ELSE /\ translated' = translated \o r.out
                /\ buffer' = r.buffer
                /\ unit_nos' = <<>>
                /\ events' = Append(events, FlushEvent("translated", r))
                /\ result' = JoinNL(translated \o r.out)
                /\ pc' = "done"
                /\ UNCHANGED <<inputs, base_indent, line_no, err>>

Next ==
    \/ Start
    \/ BlankLine
    \/ Section
    \/ ListItem
    \/ Indent
    \/ Unindent
    \/ Paragraph
    \/ Finish

Spec == Init /\ [][Next]_vars

\* the program run with the primitive as documented
InitDocumented == Init /\ wrapper = "documented"

SpecDocumented == InitDocumented /\ [][Next]_vars

(***************************************************************************)
(* Vocabulary of the properties.                                           *)
(***************************************************************************)
Done == pc = "done"

\* the flushes of a non-empty buffer, as indices into events
Units == {k \in 1..Len(events) : events[k].ev = "flush" /\ events[k].lines # <<>>}

TranslatedUnits == {k \in Units : events[k].variant = "translated"}

PassthroughUnits == {k \in Units : events[k].variant = "original"}

\* a line that is blank or a section decoration
IsStructural(l) == IsBlank(l) \/ _is_section_decoration(Strip(l))

\* the words of a text, and of a sequence of lines
WordsOf(s) == SelectSeq(Chunks(s), LAMBDA c : ~IsBlankChunk(c))

RECURSIVE WordsOfLines(_)
WordsOfLines(ls) ==
    IF ls = <<>> THEN <<>> ELSE WordsOf(Head(ls)) \o WordsOfLines(Tail(ls))

\* the list marker the documentation names for a stripped text: a bullet and a
\* space, or digits, a dot and a space; <<>> when the text is no list item
BulletMarkers ==
    { <<"-", " ">>, <<"*", " ">>, <<"#", ".", " ">>, <<"|", " ">> }

MarkerOf(text) ==
    LET n == DigitRun(text)
    IN  IF \E b \in BulletMarkers : StartsWith(text, b)
        THEN CHOOSE b \in BulletMarkers : StartsWith(text, b)
        ELSE IF n >= 1 /\ Len(text) >= n + 2 /\ text[n + 1] = "." /\ text[n + 2] = " "
        THEN Take(text, n + 2)
        ELSE <<>>

IsMarkedItem(l) ==
    ~IsBlank(l) /\ ~_is_section_decoration(Strip(l)) /\ MarkerOf(Strip(l)) # <<>>

IsSingleWord(s) == Len(WordsOf(s)) = 1

\* a line that is a single word, after its list marker if it has one
IsSingleWordLine(l) ==
    LET t == Strip(l)
        m == MarkerOf(t)
    IN  IsSingleWord(IF m # <<>> THEN Drop(t, Len(m)) ELSE t)

LeadingSpaces(l) == Take(l, RunLen(l, TRUE))

\* fragments joined by single spaces, written without Join
JoinedBySpaces(ls) ==
    LET F[k \in 0..Len(ls)] ==
            IF k = 0 THEN <<>>
            ELSE IF k = 1 THEN ls[1]
            ELSE F[k - 1] \o <<" ">> \o ls[k]
    IN  F[Len(ls)]

\* C1 (stated as claimed): when translate_docstring returns, the blank lines
\* and section-decoration lines of the output are those of the input, equal
\* in number, order and text.
C1_StructuralPreservation ==
    Done => SelectSeq(translated, IsStructural) = SelectSeq(original_lines, IsStructural)

\* C2 (stated as claimed): the first output line of the unit that a list item
\* starts begins with the item's original indent followed by its marker.
C2_ListMarkerPreserved ==
    \A k \in Units :
        LET first == original_lines[events[k].nos[1] + 1]
        IN  IsMarkedItem(first) =>
                /\ events[k].out # <<>>
                /\ StartsWith(events[k].out[1],
                              LeadingSpaces(first) \o MarkerOf(Strip(first)))

\* C3 (stated as claimed): with line_width = W > 0 every line of the output
\* is at most W long, unless the line is a single word (after its indent and
\* list marker).
C3_WidthBound ==
    (Done /\ line_width > 0) =>
        \A i \in 1..Len(translated) :
            Len(translated[i]) <= line_width \/ IsSingleWordLine(translated[i])

\* C3 (amended): with line_width = W > 0 every line a translated flush emits
\* is at most W long, unless the text the wrap primitive put on that line is a
\* single word longer than the width the primitive was given.
C3_TranslatedWidthBound ==
    line_width > 0 =>
        \A k \in TranslatedUnits :
            /\ Len(events[k].wrapped) = Len(events[k].out)
            /\ \A i \in 1..Len(events[k].out) :
                  \/ Len(events[k].out[i]) <= line_width
                  \/ /\ IsSingleWord(events[k].wrapped[i])
                     /\ Len(events[k].wrapped[i]) > events[k].avail

\* C3 witness: a wrapped unit with a line that fits after its indent and a
\* line that is one over-long word, in a run that has returned.
C3_Witness ==
    /\ Done
    /\ line_width > 0
    /\ \E k \in TranslatedUnits :
          /\ Len(events[k].out) >= 2
          /\ Len(events[k].indent) > 0
          /\ \E i \in 1..Len(events[k].out) : Len(events[k].out[i]) > line_width
          /\ \E i \in 1..Len(events[k].out) :
                /\ Len(events[k].out[i]) <= line_width
                /\ ~IsSingleWord(events[k].wrapped[i])

\* C4 (stated as claimed): with line_width = 0 every flush of a non-empty
\* buffer, of either variant, emits exactly one line.
C4_OneLinePerUnit ==
    line_width = 0 => \A k \in Units : Len(events[k].out) = 1

\* C4 (amended): with line_width = 0 every translated flush of a non-empty
\* buffer emits exactly one line, and a passthrough flush emits one line for
\* each input line accumulated.
C4_OneLinePerTranslatedUnit ==
    line_width = 0 =>
        /\ \A k \in TranslatedUnits : Len(events[k].out) = 1
        /\ \A k \in PassthroughUnits : Len(events[k].out) = Len(events[k].lines)

\* C4 witness: in no-wrap mode, a translated flush of several accumulated
\* lines that emitted one line, longer than any configured width.
C4_Witness ==
    /\ Done
    /\ line_width = 0
    /\ \E k \in TranslatedUnits :
          /\ Len(events[k].lines) >= 2
          /\ Len(events[k].out) = 1
          /\ Len(events[k].out[1]) > WideWidth

\* C5 (stated as claimed): with a lookup that returns every string unchanged,
\* the words of the output, line after line, are the words of the input.
C5_IdentityPreservesWords ==
    (Done /\ translation = NullCatalog) =>
        WordsOfLines(translated) = WordsOfLines(original_lines)

\* C6 (stated as claimed): on the empty docstring translate_docstring raises
\* nothing and returns the empty string.
C6_EmptyDocstring ==
    original_lines = <<>> => (pc # "error" /\ (Done => result = <<>>))

\* the cases of the loop that apply to the line about to be read
CasesOf(l) ==
    {c \in {"blank", "section", "list", "indent", "unindent", "paragraph"} :
        \/ c = "blank" /\ IsBlank(l)
        \/ c = "section" /\ IsSection(l)
        \/ c = "list" /\ IsList(l)
        \/ c = "indent" /\ IsPlain(l) /\ IsIndent(l, line_no, buffer, base_indent)
        \/ c = "unindent" /\ IsPlain(l) /\ ~IsIndent(l, line_no, buffer, base_indent)
                          /\ IsUnindent(l, buffer)
        \/ c = "paragraph" /\ IsPlain(l) /\ ~IsIndent(l, line_no, buffer, base_indent)
                           /\ ~IsUnindent(l, buffer)}

\* C7: on a docstring of one or more lines translate_docstring never is in an
\* error state: the Base Indent is read, every line read falls into exactly
\* one case, the section test is only made on a text that is not empty, and
\* after the last line the final flush returns.
C7_NoErrorOnLines ==
    original_lines # <<>> =>
        /\ pc \in {"start", "loop", "done"}
        /\ err = ""
        /\ pc = "loop" => line_no <= Len(original_lines)
        /\ InLoop =>
              /\ Cardinality(CasesOf(line)) = 1
              /\ ~IsBlank(line) => _split_indent(line).text # <<>>
        /\ (pc = "loop" /\ ~InLoop) =>
              flush_translated(buffer, translation, line_width, base_indent).err = ""

\* C7 witness: a docstring of the one line '=' has been returned with
\* wrapping enabled.
C7_Witness ==
    /\ Done
    /\ line_width > 0
    /\ original_lines = << <<"=">> >>
    /\ result = <<"=">>

\* C8: with line_width = 0 a translated flush of fragments t1..tn under unit
\* indent I emits the one line I + lookup(t1 + ' ' + ... + ' ' + tn).
C8_NoWrapFlush ==
    line_width = 0 =>
        \A k \in TranslatedUnits :
            events[k].out =
                << events[k].indent \o
                   gettext(translation, JoinedBySpaces(events[k].lines)) >>

\* C8 witness: two input lines were merged, the catalog has an entry for the
\* joined text, and the output is the translated text alone.
C8_Witness ==
    /\ Done
    /\ line_width = 0
    /\ Len(original_lines) = 2
    /\ \E k \in TranslatedUnits :
          /\ Len(events[k].lines) = 2
          /\ Join(events[k].lines) \in DOMAIN translation
          /\ translated = <<translation[Join(events[k].lines)]>>

\* the lines of the input with the given indices
InputAt(nos) == [i \in 1..Len(nos) |-> original_lines[nos[i] + 1]]

RECURSIVE OutputOf(_)
OutputOf(es) == IF es = <<>> THEN <<>> ELSE Head(es).out \o OutputOf(Tail(es))

\* C9: the output is the flushes' lines and the verbatim lines in the order
\* they happened; a passthrough flush emits the unit's raw input lines,
\* whatever the catalog holds, and is directly followed by the decoration line
\* that caused it, emitted verbatim; and every decoration line is directly
\* preceded by a passthrough flush, every other flush being a translated one.
C9_SectionPassthrough ==
    /\ pc # "error" => translated = OutputOf(events)
    /\ \A k \in 1..Len(events) :
          LET e == events[k]
          IN  /\ (e.ev = "flush" /\ e.variant = "original") =>
                    /\ e.out = InputAt(e.nos)
                    /\ k < Len(events)
                    /\ events[k + 1].ev = "line"
                    /\ events[k + 1].variant = "deco"
                    /\ events[k + 1].at = e.at
              /\ (e.ev = "line" /\ e.variant = "deco") =>
                    /\ e.out = <<original_lines[e.at + 1]>>
                    /\ IsSection(original_lines[e.at + 1])
                    /\ k > 1
                    /\ events[k - 1].ev = "flush"
                    /\ events[k - 1].variant = "original"
              /\ (e.ev = "flush" /\ e.variant = "translated") =>
                    ~(e.at < Len(original_lines) /\ IsSection(original_lines[e.at + 1]))

\* C9 witness: a unit of two lines with a catalog entry for its joined text
\* was flushed ahead of a decoration line, and came out untranslated.
C9_Witness ==
    /\ Done
    /\ \E k \in PassthroughUnits :
          /\ Len(events[k].lines) = 2
          /\ Join(events[k].lines) \in DOMAIN translation
          /\ translated = InputAt(events[k].nos) \o <<original_lines[events[k].at + 1]>>

\* C10 (stated as claimed): a list item directly followed by a plain-text
\* line whose indent is as long as the item's indent plus its marker is in
\* one unit with that line: no flush happens when the line is read, at any
\* line position and whatever the last line is.
C10_ListContinuationMerged ==
    \A i \in 0..(Len(original_lines) - 2) :
        LET item == original_lines[i + 1]
            cont == original_lines[i + 2]
        IN  ( /\ pc \in {"loop", "done"}
              /\ line_no >= i + 2
              /\ IsMarkedItem(item)
              /\ ~IsBlank(cont) /\ ~IsSection(cont) /\ ~IsList(cont)
              /\ Len(LeadingSpaces(cont)) =
                     Len(LeadingSpaces(item)) + Len(MarkerOf(Strip(item))) )
            => \A k \in 1..Len(events) :
                   ~(events[k].ev = "flush" /\ events[k].at = i + 1)

(***************************************************************************)
(* The continuation rule, step by step.                                    *)
(***************************************************************************)

\* the loop reads a plain-text line while a unit is active, and does not raise
ReadsPlainLine ==
    /\ InLoop
    /\ IsPlain(line)
    /\ buffer.lines # <<>>
    /\ pc' = "loop"
    /\ line_no' = line_no + 1

\* the step flushed the active unit and left a unit holding the line alone
StartsNewUnit ==
    /\ Len(events') = Len(events) + 1
    /\ buffer'.lines = <<Strip(line)>>
    /\ buffer'.start_at = line_no

\* the step appended the line to the active unit and flushed nothing
AppendsToUnit ==
    /\ events' = events
    /\ translated' = translated
    /\ buffer'.lines = Append(buffer.lines, Strip(line))
    /\ buffer'.indent = buffer.indent
    /\ buffer'.start_at = buffer.start_at

\* the reference indent as documented: the Base Indent for line index 0, the
\* active unit's indent otherwise
DocumentedReference == IF line_no = 0 THEN base_indent ELSE buffer.indent

\* C11 (stated as claimed): a plain-text line, read while a unit is active and
\* not shorter in indent than that unit, flushes the unit and starts a new one
\* exactly when its indent is longer than the reference indent, which is the
\* active unit's indent, or the Base Indent for line index 0.
C11_IndentReference ==
    [][ (ReadsPlainLine /\ ~IsUnindent(line, buffer)) =>
            (StartsNewUnit <=>
                Len(LeadingSpaces(line)) > Len(DocumentedReference)) ]_vars

\* C12 (stated as claimed): a plain-text line whose indent is as long as the
\* active unit's indent is appended to that unit without any flush, at every
\* line index.
C12_SameIndentAppends ==
    [][ (ReadsPlainLine /\ Len(LeadingSpaces(line)) = Len(buffer.indent)) =>
            AppendsToUnit ]_vars

(***************************************************************************)
(* The classifier functions applied on their own to every string of at     *)
(* most MaxText characters.                                                *)
(***************************************************************************)
Alphabet == {" ", "a", "-", "1", ".", "#"}

Texts == SeqsUpTo(Alphabet, MaxText)

ClassifierInit ==
    /\ probe \in Texts
    /\ wrapper = "documented"
    /\ answer = <<>>
    /\ pc = "call"
    /\ original_lines = <<>>
    /\ translation = NullCatalog
    /\ line_width = 0
    /\ base_indent = <<>>
    /\ buffer = _reset
    /\ translated = <<>>
    /\ line_no = 0
    /\ err = ""
    /\ result = <<>>
    /\ unit_nos = <<>>
    /\ events = <<>>
    /\ first_pass = <<>>

Returned(fn, ret) ==
    /\ answer' = <<[fn |-> fn, ret |-> ret]>>
    /\ pc' = "returned"
    /\ UNCHANGED <<original_lines, translation, line_width, base_indent, buffer,
                   translated, line_no, err, result, unit_nos, events, first_pass,
                   probe, wrapper>>

\* a call of _split_indent on a raw line
CallSplitIndent ==
    /\ pc = "call"
    /\ Returned("_split_indent", _split_indent(probe))

\* a call of _try_split_list_header on a stripped, non-empty text
CallTrySplitListHeader ==
    /\ pc = "call"
    /\ probe # <<>>
    /\ Strip(probe) = probe
    /\ Returned("_try_split_list_header", _try_split_list_header(probe))

ClassifierNext == CallSplitIndent \/ CallTrySplitListHeader

ClassifierSpec == ClassifierInit /\ [][ClassifierNext]_vars

ReturnedBy(fn) == answer # <<>> /\ answer[1].fn = fn

AllSpaces(s) == \A i \in 1..Len(s) : s[i] = " "

\* C13 (stated as claimed): _try_split_list_header reports a list item if and
\* only if the text begins with a bullet marker and a space or with digits, a
\* dot and a space; every other text comes back as plain text, header empty.
C13_ListClassification ==
    ReturnedBy("_try_split_list_header") =>
        LET r == answer[1].ret
        IN  /\ r.is_list <=> MarkerOf(probe) # <<>>
            /\ MarkerOf(probe) = <<>> =>
                   r = [is_list |-> FALSE, header |-> <<>>, body |-> probe]

\* the part of C14 that holds of every line: the indent is whitespace, the
\* text has no whitespace at either end, and indent + text + trailing
\* whitespace is the line
SplitsLine(l, r) ==
    /\ AllSpaces(r.indent)
    /\ r.text # <<>> => (r.text[1] # " " /\ r.text[Len(r.text)] # " ")
    /\ Len(r.indent) + Len(r.text) <= Len(l)
    /\ Take(l, Len(r.indent) + Len(r.text)) = r.indent \o r.text
    /\ AllSpaces(Drop(l, Len(r.indent) + Len(r.text)))

\* C14 (stated as claimed): _split_indent returns the leading whitespace and
\* the stripped text, with indent + text + trailing whitespace = line, and for
\* a blank line the empty indent and the empty text.
C14_SplitIndent ==
    ReturnedBy("_split_indent") =>
        LET r == answer[1].ret
        IN  /\ SplitsLine(probe, r)
            /\ AllSpaces(probe) => (r.indent = <<>> /\ r.text = <<>>)

\* C14 (amended): _split_indent returns the leading whitespace and the
\* stripped text, with indent + text + trailing whitespace = line, and for a
\* blank line the whole line as indent and the empty text.
C14_SplitIndentBlankIsIndent ==
    ReturnedBy("_split_indent") =>
        LET r == answer[1].ret
        IN  /\ SplitsLine(probe, r)
            /\ AllSpaces(probe) => (r.indent = probe /\ r.text = <<>>)

\* C14 witness: _split_indent has returned for a line of whitespace only.
C14_Witness ==
    /\ ReturnedBy("_split_indent")
    /\ Len(probe) >= 2
    /\ AllSpaces(probe)
    /\ answer[1].ret.indent = probe

\* C15 (stated as claimed): with line_width = W > 0 the width a translated
\* flush passes to the wrap primitive is W - max(len(unit indent),
\* len(Base Indent)), less the delimiter width when the unit starts at line 0.
C15_WrapWidth ==
    line_width > 0 =>
        \A k \in TranslatedUnits :
            LET a == Len(events[k].indent)
                b == Len(base_indent)
                effective == IF a >= b THEN a ELSE b
            IN  events[k].avail =
                    line_width - effective
                        - (IF events[k].start_at = 0 THEN DelimiterWidth ELSE 0)

\* the length of the prefix the flush put before the i-th wrapped line
PrefixLen(k, i) == Len(events[k].out[i]) - Len(events[k].wrapped[i])

\* C16: with line_width > 0 the first line of a translated flush is the unit's
\* indent string followed by the first wrapped line, and every later line is
\* its wrapped line after max(len(unit indent), len(Base Indent)) spaces.
C16_ContinuationPrefix ==
    line_width > 0 =>
        \A k \in TranslatedUnits :
            LET a == Len(events[k].indent)
                b == Len(base_indent)
                effective == IF a >= b THEN a ELSE b
            IN  /\ Len(events[k].out) = Len(events[k].wrapped)
                /\ events[k].out[1] = events[k].indent \o events[k].wrapped[1]
                /\ \A i \in 2..Len(events[k].out) :
                      /\ PrefixLen(k, i) = effective
                      /\ AllSpaces(Take(events[k].out[i], effective))
                      /\ Drop(events[k].out[i], effective) = events[k].wrapped[i]

\* C16 witness: a list item was wrapped onto two lines or more, its marker
\* on the first only, in a run that has returned.
C16_Witness ==
    /\ Done
    /\ line_width > 0
    /\ \E k \in TranslatedUnits :
          /\ Len(events[k].out) >= 2
          /\ ~AllSpaces(events[k].indent)
          /\ AllSpaces(Take(events[k].out[2], Len(events[k].indent)))

\* the input line indices the events account for, in the order of the events
RECURSIVE Accounted(_)
Accounted(es) ==
    IF es = <<>> THEN <<>>
    ELSE (IF Head(es).ev = "line" THEN <<Head(es).at>> ELSE Head(es).nos)
            \o Accounted(Tail(es))

\* the fragment a line contributes: its stripped text, or the body of a list item
FragmentOf(l) ==
    LET t == Strip(l)
        h == _try_split_list_header(t)
    IN  IF h.is_list THEN h.body ELSE t

\* C17: when translate_docstring returns, the buffer is empty, the output is
\* the events' output in order, the events account for the input line indices
\* 0..n-1 each exactly once and in order, a line emitted verbatim is the raw
\* blank or decoration line, a passthrough flush emits the raw lines of its
\* unit, and the fragments of a translated flush are the texts of its lines.
C17_EveryLineOnce ==
    Done =>
        /\ buffer = _reset
        /\ unit_nos = <<>>
        /\ translated = OutputOf(events)
        /\ Accounted(events) = [i \in 1..Len(original_lines) |-> i - 1]
        /\ \A k \in 1..Len(events) :
              LET e == events[k]
              IN  /\ e.ev = "line" =>
                        /\ e.out = <<original_lines[e.at + 1]>>
                        /\ \/ Strip(original_lines[e.at + 1]) = <<>>
                           \/ _is_section_decoration(Strip(original_lines[e.at + 1]))
                  /\ e.ev = "flush" =>
                        /\ Len(e.lines) = Len(e.nos)
                        /\ e.originals = InputAt(e.nos)
                        /\ \A i \in 1..Len(e.nos) :
                              e.lines[i] = FragmentOf(original_lines[e.nos[i] + 1])
                  /\ (e.ev = "flush" /\ e.variant = "original") => e.out = e.originals
                  /\ (e.ev = "flush" /\ e.variant = "translated" /\ e.lines # <<>>) =>
                        /\ e.out # <<>>
                        /\ line_width <= 0 =>
                              e.out = <<e.indent \o gettext(translation, Join(e.lines))>>

\* C17 witness: a run has returned that emitted a line verbatim and flushed a
\* translated unit of two fragments or more.
C17_Witness ==
    /\ Done
    /\ \E k \in TranslatedUnits : Len(events[k].lines) >= 2
    /\ \E k \in 1..Len(events) : events[k].ev = "line"

IsDecorationLine(l) == Strip(l) # <<>> /\ _is_section_decoration(Strip(l))

IsListItemLine(l) ==
    /\ Strip(l) # <<>>
    /\ ~IsDecorationLine(l)
    /\ _try_split_list_header(Strip(l)).is_list

\* the units there have been: the flushed ones and the one in the buffer
UnitIndices == {events[k].nos : k \in 1..Len(events)} \cup {unit_nos}

\* C18: no unit ever holds a decoration line, so none reaches a translated
\* flush and the lookup, and a list item is only ever the first line of a
\* unit, whatever the indent of the unit that was active when it was read.
C18_StructuralLinesNotFolded ==
    \A nos \in UnitIndices :
        \A i \in 1..Len(nos) :
            /\ ~IsDecorationLine(original_lines[nos[i] + 1])
            /\ IsListItemLine(original_lines[nos[i] + 1]) => i = 1

\* C18 witness: a list item and a decoration line were read at the indent of
\* the unit then active, and each ended that unit.
C18_Witness ==
    /\ \E k \in Units :
          /\ events[k].at < Len(original_lines)
          /\ IsListItemLine(original_lines[events[k].at + 1])
          /\ LeadingSpaces(original_lines[events[k].at + 1]) = events[k].indent
    /\ \E k \in Units :
          /\ events[k].at < Len(original_lines)
          /\ IsDecorationLine(original_lines[events[k].at + 1])
          /\ LeadingSpaces(original_lines[events[k].at + 1]) = events[k].indent

(***************************************************************************)
(* TranslationBuffer on its own: any sequence of at most MaxCalls calls of *)
(* put, flush_translated and flush_original on one object.  line_no counts *)
(* the calls and is the line number a put is given; answer holds the calls *)
(* made, each with the lines it returned and the exception it raised.      *)
(***************************************************************************)
PutIndents == {<<>>, <<" ", " ">>, <<"-", " ">>}

PutTexts == {<<>>, <<"a">>, <<"a", " ", "b", "b">>}

BufferInit ==
    /\ wrapper \in Wrappers
    /\ translation \in Catalogs
    /\ line_width \in {0, AmpleWidth}
    /\ base_indent \in {<<>>, <<" ", " ">>}
    /\ buffer = _reset
    /\ answer = <<>>
    /\ line_no = 0
    /\ pc = "buffer"
    /\ original_lines = <<>>
    /\ translated = <<>>
    /\ err = ""
    /\ result = <<>>
    /\ unit_nos = <<>>
    /\ events = <<>>
    /\ first_pass = <<>>
    /\ probe = <<>>

Called(fn, out, e) ==
    /\ line_no < MaxCalls
    /\ line_no' = line_no + 1
    /\ answer' = Append(answer, [fn |-> fn, ret |-> out, err |-> e])
    /\ UNCHANGED <<original_lines, translation, line_width, base_indent, translated,
                   pc, err, result, unit_nos, events, first_pass, probe, wrapper>>

\* lines 65-70
CallPut ==
    /\ pc = "buffer"
    /\ \E indent \in PutIndents, text \in PutTexts :
          buffer' = put(buffer, line_no, indent, text, indent \o text)
    /\ Called("put", <<>>, "")

\* lines 40-63; an exception leaves the attributes as they were
CallFlushTranslated ==
    /\ pc = "buffer"
    /\ LET r == flush_translated(buffer, translation, line_width, base_indent)
       IN  /\ buffer' = r.buffer
           /\ Called("flush_translated", r.out, r.err)

\* lines 35-38
CallFlushOriginal ==
    /\ pc = "buffer"
    /\ LET r == flush_original(buffer)
       IN  /\ buffer' = r.buffer
           /\ Called("flush_original", r.out, r.err)

BufferNext == CallPut \/ CallFlushTranslated \/ CallFlushOriginal

BufferSpec == BufferInit /\ [][BufferNext]_vars

\* the buffer with the primitive as documented
BufferInitDocumented == BufferInit /\ wrapper = "documented"

BufferSpecDocumented == BufferInitDocumented /\ [][BufferNext]_vars

IsEmpty(buf) == buf.lines = <<>>

BufferShape(buf) ==
    /\ Len(buf.lines) = Len(buf.original_lines)
    /\ IsEmpty(buf) <=> buf.start_at = -1
    /\ IsEmpty(buf) => buf.indent = <<>>

IsFlush(fn) == fn \in {"flush_translated", "flush_original"}

\* the call a step makes
LastCall == answer'[Len(answer')]

\* C19: in every state of a TranslationBuffer lines and original_lines have
\* the same length and the buffer is empty exactly when start_at = -1, the
\* indent then being empty; a put on an empty buffer sets start_at and indent
\* and a put on a buffer that holds lines changes neither; either flush
\* raises nothing, returns one line or more for a buffer that holds lines and
\* leaves the buffer empty, and a flush of an empty buffer emits nothing.
C19_BufferLifecycle ==
    [][ /\ BufferShape(buffer')
        /\ LastCall.err = ""
        /\ (LastCall.fn = "put" /\ ~IsEmpty(buffer)) =>
              /\ buffer'.start_at = buffer.start_at
              /\ buffer'.indent = buffer.indent
              /\ Len(buffer'.lines) = Len(buffer.lines) + 1
        /\ (LastCall.fn = "put" /\ IsEmpty(buffer)) =>
              /\ buffer'.start_at = line_no
              /\ Len(buffer'.lines) = 1
        /\ IsFlush(LastCall.fn) => IsEmpty(buffer')
        /\ (IsFlush(LastCall.fn) /\ ~IsEmpty(buffer)) => LastCall.ret # <<>>
        /\ (IsFlush(LastCall.fn) /\ IsEmpty(buffer)) => LastCall.ret = <<>>
      ]_vars

\* C19 witness: a put, a flush that returned the unit and a flush of the
\* other kind that returned nothing have been made one after the other.
C19_Witness ==
    \E i \in 1..Len(answer) :
        /\ i + 2 <= Len(answer)
        /\ answer[i].fn = "put"
        /\ IsFlush(answer[i + 1].fn) /\ answer[i + 1].ret # <<>>
        /\ IsFlush(answer[i + 2].fn) /\ answer[i + 2].ret = <<>>
        /\ answer[i + 1].fn # answer[i + 2].fn
        /\ IsEmpty(buffer)

(***************************************************************************)
(* translate_docstring applied to its own result, with the identity lookup *)
(* and line-width limiting disabled.  first_pass holds the result of the   *)
(* first call once the second has begun.                                   *)
(***************************************************************************)
\* str.splitlines() on a text whose only line boundary is "\n": the pieces
\* between the newlines, a final empty piece left out
RECURSIVE SplitLines(_)
SplitLines(text) ==
    IF text = <<>> THEN <<>>
    ELSE LET nl == {i \in 1..Len(text) : text[i] = "\n"}
         IN  IF nl = {} THEN <<text>>
             ELSE LET i == CHOOSE n \in nl : \A m \in nl : n <= m
                  IN  <<Take(text, i - 1)>> \o SplitLines(Drop(text, i))

InitTwice ==
    /\ InitWith({0})
    /\ translation = NullCatalog

\* translate_docstring(translate_docstring(d, id, 0), id, 0): the second call
SecondPass ==
    /\ pc = "done"
    /\ first_pass = <<>>
    /\ first_pass' = <<result>>
    /\ original_lines' = SplitLines(result)
    /\ base_indent' = <<>>
    /\ buffer' = _reset
    /\ translated' = <<>>
    /\ line_no' = 0
    /\ pc' = "start"
    /\ err' = ""
    /\ result' = <<>>
    /\ unit_nos' = <<>>
    /\ events' = <<>>
    /\ UNCHANGED <<translation, line_width, probe, answer, wrapper>>

NextTwice == Next \/ SecondPass

SpecTwice == InitTwice /\ [][NextTwice]_vars

\* C20 (stated as claimed): with the identity lookup and no wrapping the
\* second call on the result of the first returns, and returns that result.
C20_Idempotent ==
    first_pass # <<>> =>
        /\ pc # "error"
        /\ Done => result = first_pass[1]

=============================================================================
